---- MODULE Spec2Model ----
(***************************************************************************)
(* Streaming speech-to-text WebSocket server (src/server_cpp.py).          *)
(*                                                                         *)
(* One connection is modelled: the coroutine handle_streaming_client (the  *)
(* receive loop), the periodic_transcribe tasks it spawns, the AudioBuffer *)
(* objects they share, the peer that sends frames and closes, and the      *)
(* wall clock read by time.time().  Of a second connection of the same     *)
(* server only one Transcriber call of its scheduler is modelled.          *)
(*                                                                         *)
(* asyncio runs one coroutine at a time and switches only at an await that *)
(* really suspends.  transcribe_chunk is declared async but contains no    *)
(* await: MODEL.transcribe is an ordinary blocking call, so from the call  *)
(* to its return the event loop runs nothing else.  A Transcriber call is  *)
(* modelled as two steps (begin, return) so that the states in which it is *)
(* outstanding exist; LoopFree is false in those states and every other    *)
(* coroutine step is guarded by it.  The clock and the peer are not part   *)
(* of the event loop and move at any time.                                 *)
(*                                                                         *)
(* `await websocket.send(...)` may suspend after the message is written.   *)
(* Where code follows the send in the same coroutine (final before         *)
(* session_ended, partial before the finally clause) the coroutine has a   *)
(* position of its own after the send, at which the loop is free.  After   *)
(* connected, session_started, pong and session_ended the handler goes to  *)
(* the receive loop, where it waits in the same way.  A task made by       *)
(* create_task takes its first step only when the loop runs it.            *)
(*                                                                         *)
(* Time is in milliseconds and advances in steps of the polling interval;   *)
(* the clock starts at a positive value, as time.time() is never 0.        *)
(* Audio is a sequence of frames; a frame is [id, size], size in bytes.    *)
(* A text is a sequence of tokens; the Transcriber is opaque and answers   *)
(* failure (None), the empty text, or a text naming the frames it heard.   *)
(***************************************************************************)
EXTENDS Integers, Sequences, FiniteSets, TLC

\* ------------------------------------------------------------------ bounds
MaxStarts == 2      \* start commands the peer sends on the connection
MaxFrames == 4      \* frames of any kind the peer sends on the connection
MaxClock == 2       \* clock steps

\* ------------------------------------------------------- program constants
min_data_size == 30 * 1024
stop_filter == 10240
silence_threshold == 1000
max_interval == 2000
interval == 500

\* ------------------------------------------------------------ peer inputs
FrameSizes == {stop_filter, min_data_size}

CtlKinds == {"stop", "ping", "badjson", "unknown", "nonobject"}

CloseKinds == {"closed_ok", "closed_err"}

\* What the peer and the clock may do in one run:
\*   a session: several starts, every kind of frame, the peer stays;
\*   a closing peer: the same with one frame fewer, and the peer may close,
\*     cleanly or not, at any moment;
\*   a long session: one start, fewer frames, and a time long enough for the
\*     interval trigger (max_interval after an earlier trigger);
\*   continuous speech: one start and then only full audio frames, over a
\*     still longer time;
\*   two connections: a short session of full audio frames while the server
\*     has a second connection whose scheduler has a segment ready.
Limits ==
    { [starts |-> MaxStarts, frames |-> MaxFrames, clock |-> MaxClock,
       ctl |-> CtlKinds, sizes |-> FrameSizes, close |-> {}, others |-> 0],
      [starts |-> MaxStarts, frames |-> MaxFrames - 1, clock |-> MaxClock,
       ctl |-> CtlKinds, sizes |-> FrameSizes, close |-> CloseKinds, others |-> 0],
      [starts |-> 1, frames |-> MaxFrames - 1, clock |-> MaxClock + 3,
       ctl |-> CtlKinds, sizes |-> FrameSizes, close |-> {}, others |-> 0],
      [starts |-> 1, frames |-> MaxFrames + 1, clock |-> MaxClock + 4,
       ctl |-> {}, sizes |-> {min_data_size}, close |-> {}, others |-> 0],
      [starts |-> 1, frames |-> MaxFrames - 2, clock |-> MaxClock,
       ctl |-> {}, sizes |-> {min_data_size}, close |-> {}, others |-> 1] }

NoTime == -1        \* None in last_data_time / last_transcribe_time
NoTask == 0         \* None in transcribe_task

BufIds == 0 .. MaxStarts
TaskIds == 1 .. MaxStarts

\* ---------------------------------------------------------------- helpers
RECURSIVE Size(_)
Size(chunk) ==
    IF chunk = <<>> THEN 0 ELSE Head(chunk).size + Size(Tail(chunk))

RECURSIVE Join(_)
Join(texts) ==
    IF texts = <<>> THEN <<>> ELSE Head(texts) \o Join(Tail(texts))

IsPrefix(s, t) ==
    /\ Len(s) <= Len(t)
    /\ SubSeq(t, 1, Len(s)) = s

Ids(chunk) == [i \in 1 .. Len(chunk) |-> chunk[i].id]

\* faulty variant: `if text is not None`, the empty text counts as a result
TruthyNotNone(r) == r.ok

Truthy(r) == r.ok /\ r.text # <<>>

\* `if self.last_data_time:` / `if self.last_transcribe_time:`
TimeSet(x) == x # NoTime /\ x # 0

\* -------------------------------------------------------------- AudioBuffer
NewAudioBuffer ==
    [buffer |-> <<>>, all_text |-> <<>>, last_data_time |-> NoTime,
     last_transcribe_time |-> NoTime, is_segment_end |-> FALSE]

add_data(b, data, t) ==
    [b EXCEPT !.buffer = @ \o <<data>>, !.last_data_time = t]

\* faulty variant: the gate compares against the stop filter
MinSizeGateFilter(b) == Size(b.buffer) < stop_filter

MinSizeGate(b) == Size(b.buffer) < min_data_size

\* faulty variant: the interval test comes before the silence test
should_transcribe_interval_first(b, t) ==
    IF MinSizeGate(b)
    THEN [ret |-> FALSE, buf |-> b]
    ELSE IF TimeSet(b.last_transcribe_time)
            /\ t - b.last_transcribe_time >= max_interval
    THEN [ret |-> TRUE,
          buf |-> [b EXCEPT !.is_segment_end = FALSE, !.last_transcribe_time = t]]
    ELSE IF TimeSet(b.last_data_time) /\ t - b.last_data_time >= silence_threshold
    THEN [ret |-> TRUE,
          buf |-> [b EXCEPT !.is_segment_end = TRUE, !.last_transcribe_time = t]]
    ELSE IF ~TimeSet(b.last_transcribe_time) /\ Size(b.buffer) >= min_data_size
    THEN [ret |-> TRUE,
          buf |-> [b EXCEPT !.is_segment_end = FALSE, !.last_transcribe_time = t]]
    ELSE [ret |-> FALSE, buf |-> b]

\* [ret, buf]: the value returned and the buffer object afterwards
should_transcribe(b, t) ==
    IF MinSizeGate(b)
    THEN [ret |-> FALSE, buf |-> b]
    ELSE IF TimeSet(b.last_data_time) /\ t - b.last_data_time >= silence_threshold
    THEN [ret |-> TRUE,
          buf |-> [b EXCEPT !.is_segment_end = TRUE, !.last_transcribe_time = t]]
    ELSE IF TimeSet(b.last_transcribe_time)
    THEN IF t - b.last_transcribe_time >= max_interval
         THEN [ret |-> TRUE,
               buf |-> [b EXCEPT !.is_segment_end = FALSE,
                                 !.last_transcribe_time = t]]
         ELSE [ret |-> FALSE, buf |-> b]
    ELSE IF Size(b.buffer) >= min_data_size
    THEN [ret |-> TRUE,
          buf |-> [b EXCEPT !.is_segment_end = FALSE, !.last_transcribe_time = t]]
    ELSE [ret |-> FALSE, buf |-> b]

\* faulty variant: the buffer is cleared for interim segments too
get_data_clearing(b) ==
    IF Len(b.buffer) = 0
    THEN [chunk |-> <<>>, final |-> FALSE, buf |-> b]
    ELSE [chunk |-> b.buffer, final |-> b.is_segment_end,
          buf |-> [b EXCEPT !.buffer = <<>>]]

\* faulty variant: a final segment is left in the buffer
get_data_keeping(b) ==
    IF Len(b.buffer) = 0
    THEN [chunk |-> <<>>, final |-> FALSE, buf |-> b]
    ELSE [chunk |-> b.buffer, final |-> b.is_segment_end, buf |-> b]

\* [chunk, final, buf]; chunk = <<>> stands for None
get_data_for_transcribe(b) ==
    IF Len(b.buffer) = 0
    THEN [chunk |-> <<>>, final |-> FALSE, buf |-> b]
    ELSE IF b.is_segment_end
    THEN [chunk |-> b.buffer, final |-> TRUE, buf |-> [b EXCEPT !.buffer = <<>>]]
    ELSE [chunk |-> b.buffer, final |-> FALSE, buf |-> b]

\* faulty variant: the drained block is left in the buffer
get_remaining_keeping(b) ==
    IF Len(b.buffer) = 0
    THEN [chunk |-> <<>>, final |-> FALSE, buf |-> b]
    ELSE [chunk |-> b.buffer, final |-> TRUE, buf |-> b]

get_remaining_data(b) ==
    IF Len(b.buffer) = 0
    THEN [chunk |-> <<>>, final |-> FALSE, buf |-> b]
    ELSE [chunk |-> b.buffer, final |-> TRUE, buf |-> [b EXCEPT !.buffer = <<>>]]

add_text(b, text) ==
    IF text # <<>> THEN [b EXCEPT !.all_text = Append(@, text)] ELSE b

\* faulty variant: only the last text saved is returned
get_last_text(b) ==
    IF b.all_text = <<>> THEN <<>> ELSE b.all_text[Len(b.all_text)]

get_full_text(b) == Join(b.all_text)

\* ------------------------------------------------------------- Transcriber
\* transcribe_chunk: None on any exception, otherwise the stripped text
TranscribeResults(chunk) ==
    { [ok |-> FALSE, text |-> <<>>],
      [ok |-> TRUE, text |-> <<>>],
      [ok |-> TRUE, text |-> Ids(chunk)] }

\* ------------------------------------------------------------------- state
VARIABLES
    limits,          \* the run's element of Limits; never changes
    other,           \* the scheduler of a session on a second connection:
                     \*   "none", "sleep" (a segment is ready), "call", "done"
    now,             \* time.time(), ms
    conn,            \* "open", "closed_ok", "closed_err" (peer), "closed_srv"
    inbox,           \* the frame the peer has sent and the receive loop has not
                     \*   taken yet, if any
    nstart, nbin, nframes,   \* start, binary and all frames the peer has sent
    hpc,             \* handle_streaming_client: "connect", "recv", "await_task",
                     \*   "flush" (inside transcribe_chunk), "final_sent" (in
                     \*   or after the send of final), "done"
    buffer,          \* the handler's local `buffer`: index into bufs
    session_active,
    transcribe_task, \* the handler's local `transcribe_task`: NoTask or a task id
    ntasks,          \* periodic_transcribe tasks created so far
    bufs,            \* the AudioBuffer objects; bufs[k] is the one made by start k
    tasks,           \* the periodic_transcribe tasks; tasks[k] polls bufs[k];
                     \*   pc: "none", "new" (created, no step taken), "sleep",
                     \*   "call", "send" (in or after the send of partial),
                     \*   "cancelled", "failed"
    remaining,       \* the handler's local `remaining` during the stop flush
    sent,            \* messages written to the connection, in order
    failedSends,     \* websocket.send calls that raised ConnectionClosed
    fed,             \* history: per buffer, the frames passed to add_data
    finals,          \* history: per buffer, the final segments the task extracted
    drained,         \* history: per buffer, the blocks get_remaining_data took
    calls,           \* history: the Transcriber calls that returned, in order:
                     \*   by (task id, NoTask for the stop flush), buf, chunk,
                     \*   final, text (empty on failure), stop_pending, msg
                     \*   (the texts of the messages sent for it: one or none)
    episode          \* history: per buffer, since the last add_data: fires, the
                     \*   times should_transcribe returned true on silence, and
                     \*   idle, a later poll of the buffer has returned false;
                     \*   steady, every add_data on the buffer so far came less
                     \*   than silence_threshold after the one before

vars == <<limits, other, now, conn, inbox, nstart, nbin, nframes, hpc, buffer, session_active,
          transcribe_task, ntasks, bufs, tasks, remaining, sent, failedSends,
          fed, finals, drained, calls, episode>>

peerVars == <<limits, other, conn, inbox, nstart, nbin, nframes>>
handlerVars == <<hpc, buffer, session_active, transcribe_task, ntasks, remaining>>
histVars == <<fed, finals, drained, calls, episode>>

NewEpisode == [fires |-> 0, idle |-> FALSE, steady |-> TRUE]

\* history only: add_data is called on buffer b at time t
Fed(e, b, t) ==
    [NewEpisode EXCEPT !.steady =
        e.steady /\ (b.last_data_time = NoTime
                        \/ t - b.last_data_time < silence_threshold)]

NoTaskState ==
    [pc |-> "none", transcribing |-> FALSE, cancelReq |-> FALSE, slept |-> FALSE,
     chunk |-> <<>>, is_segment_end |-> FALSE]

Init ==
    /\ limits \in Limits
    /\ other = IF limits.others = 0 THEN "none" ELSE "sleep"
    /\ now = interval
    /\ conn = "open"
    /\ inbox = <<>>
    /\ nstart = 0 /\ nbin = 0 /\ nframes = 0
    /\ hpc = "connect"
    /\ buffer = 0
    /\ session_active = FALSE
    /\ transcribe_task = NoTask
    /\ ntasks = 0
    /\ bufs = [b \in BufIds |-> NewAudioBuffer]
    /\ tasks = [t \in TaskIds |-> NoTaskState]
    /\ remaining = <<>>
    /\ sent = <<>>
    /\ failedSends = 0
    /\ fed = [b \in BufIds |-> <<>>]
    /\ finals = [b \in BufIds |-> <<>>]
    /\ drained = [b \in BufIds |-> <<>>]
    /\ calls = <<>>
    /\ episode = [b \in BufIds |-> NewEpisode]

Msg(type, text) == [type |-> type, text |-> text]

\* ---------------------------------------------------------- the event loop
Live == {"new", "sleep", "call", "send"}

\* faulty variant: the Transcriber call yields to the event loop
LoopNeverHeld == TRUE

\* transcribe_chunk never suspends: while a call is outstanding the loop is held
LoopFree ==
    /\ hpc # "flush"
    /\ other # "call"
    /\ \A t \in TaskIds : tasks[t].pc # "call"

\* faulty variant: cancel() has no effect on the task
CancelIgnored(ts, t) == ts

\* Task.cancel(): a finished task is left alone
Cancel(ts, t) ==
    IF t # NoTask /\ ts[t].pc \in Live
    THEN [ts EXCEPT ![t].cancelReq = TRUE]
    ELSE ts

\* ------------------------------------------------------- clock and the peer
\* one clock step is the polling interval, so every asyncio.sleep(interval)
\* that is pending when the clock moves has elapsed afterwards
Advance ==
    /\ now < (limits.clock + 1) * interval
    /\ now' = now + interval
    /\ tasks' = [t \in TaskIds |->
                   IF tasks[t].pc = "sleep" THEN [tasks[t] EXCEPT !.slept = TRUE]
                                            ELSE tasks[t]]
    /\ UNCHANGED <<peerVars, handlerVars, bufs, sent, failedSends, histVars>>

PeerSendBinary ==
    /\ conn = "open"
    /\ inbox = <<>>
    /\ nframes < limits.frames
    /\ \E sz \in limits.sizes :
         inbox' = Append(inbox, [kind |-> "bin", id |-> nbin + 1, size |-> sz])
    /\ nbin' = nbin + 1
    /\ nframes' = nframes + 1
    /\ UNCHANGED <<limits, other, now, conn, nstart, handlerVars, bufs, tasks, sent,
                   failedSends, histVars>>

PeerSendStart ==
    /\ conn = "open"
    /\ inbox = <<>>
    /\ nframes < limits.frames
    /\ nstart < limits.starts
    /\ inbox' = Append(inbox, [kind |-> "start"])
    /\ nstart' = nstart + 1
    /\ nframes' = nframes + 1
    /\ UNCHANGED <<limits, other, now, conn, nbin, handlerVars, bufs, tasks, sent,
                   failedSends, histVars>>

PeerSendCtl ==
    /\ conn = "open"
    /\ inbox = <<>>
    /\ nframes < limits.frames
    /\ \E k \in limits.ctl : inbox' = Append(inbox, [kind |-> k])
    /\ nframes' = nframes + 1
    /\ UNCHANGED <<limits, other, now, conn, nstart, nbin, handlerVars, bufs, tasks, sent,
                   failedSends, histVars>>

PeerClose ==
    /\ conn = "open"
    /\ conn' \in limits.close
    /\ UNCHANGED <<limits, other, now, inbox, nstart, nbin, nframes, handlerVars, bufs, tasks, sent,
                   failedSends, histVars>>

\* ------------------------------------------- handle_streaming_client: sends
\* The outer except clauses: cancel the current task and return; the server
\* then closes the connection if the peer has not.
Raised(ts, tt) ==
    /\ hpc' = "done"
    /\ tasks' = Cancel(ts, tt)
    /\ conn' = IF conn = "open" THEN "closed_srv" ELSE conn

\* faulty variant: the receive loop is entered without the connected message
ConnectSilent ==
    /\ hpc = "connect"
    /\ LoopFree
    /\ hpc' = "recv"
    /\ UNCHANGED <<limits, other, now, conn, inbox, nstart, nbin, nframes, buffer,
                   session_active, transcribe_task, ntasks, bufs, tasks, remaining,
                   sent, failedSends, histVars>>

\* `await websocket.send(connected)` before the receive loop
Connect ==
    /\ hpc = "connect"
    /\ LoopFree
    /\ IF conn = "open"
       THEN /\ sent' = Append(sent, Msg("connected", <<>>))
            /\ hpc' = "recv"
            /\ UNCHANGED <<failedSends, tasks, conn>>
       ELSE /\ failedSends' = failedSends + 1
            /\ Raised(tasks, transcribe_task)
            /\ UNCHANGED sent
    /\ UNCHANGED <<limits, other, now, inbox, nstart, nbin, nframes, buffer, session_active,
                   transcribe_task, ntasks, bufs, remaining, histVars>>

Receiving(kind) ==
    /\ hpc = "recv"
    /\ LoopFree
    /\ inbox # <<>>
    /\ Head(inbox).kind = kind

\* a binary frame: an implicit session begins if none is active; add_data
HandleBinary ==
    /\ Receiving("bin")
    /\ LET frame == [id |-> Head(inbox).id, size |-> Head(inbox).size] IN
         /\ bufs' = [bufs EXCEPT ![buffer] = add_data(@, frame, now)]
         /\ fed' = [fed EXCEPT ![buffer] = Append(@, frame)]
    /\ episode' = [episode EXCEPT ![buffer] = Fed(@, bufs[buffer], now)]
    /\ session_active' = TRUE
    /\ inbox' = Tail(inbox)
    /\ UNCHANGED <<limits, other, now, conn, nstart, nbin, nframes, hpc, buffer, transcribe_task,
                   ntasks, tasks, remaining, sent, failedSends, finals, drained,
                   calls>>

\* faulty variant: start creates no scheduler task
SpawnNone(ts, k) == ts

\* asyncio.create_task(periodic_transcribe(buffer, websocket, interval=0.5))
SpawnTask(ts, k) ==
    [ts EXCEPT ![k] = [NoTaskState EXCEPT !.pc = "new"]]

\* {"command": "start"}
HandleStart ==
    /\ Receiving("start")
    /\ LET k == ntasks + 1 IN
         /\ buffer' = k
         /\ bufs' = [bufs EXCEPT ![k] = NewAudioBuffer]
         /\ session_active' = TRUE
         /\ ntasks' = k
         /\ transcribe_task' = k
         /\ IF conn = "open"
            THEN /\ sent' = Append(sent, Msg("session_started", <<>>))
                 /\ tasks' = SpawnTask(tasks, k)
                 /\ UNCHANGED <<hpc, conn, failedSends>>
            ELSE /\ failedSends' = failedSends + 1
                 /\ Raised(SpawnTask(tasks, k), k)
                 /\ UNCHANGED sent
    /\ inbox' = Tail(inbox)
    /\ UNCHANGED <<limits, other, now, nstart, nbin, nframes, remaining, histVars>>

\* get_full_text and `await websocket.send(final)`
SendFinal(b) ==
    /\ bufs' = [bufs EXCEPT ![buffer] = b]
    /\ remaining' = <<>>
    /\ IF conn = "open"
       THEN /\ sent' = Append(sent, Msg("final", get_full_text(b)))
            /\ hpc' = "final_sent"
            /\ UNCHANGED <<failedSends, tasks, conn>>
       ELSE /\ failedSends' = failedSends + 1
            /\ Raised(tasks, transcribe_task)
            /\ UNCHANGED sent
    /\ UNCHANGED session_active

\* faulty variant: a block of exactly the filter's size is transcribed
PassesStopFilterAt(chunk) == chunk # <<>> /\ Size(chunk) >= stop_filter

PassesStopFilter(chunk) == chunk # <<>> /\ Size(chunk) > stop_filter

\* the stop branch after the task has been awaited: get_remaining_data, then
\* either the flush call begins or the reply is sent
DrainRemaining ==
    LET r == get_remaining_data(bufs[buffer]) IN
      /\ drained' = [drained EXCEPT ![buffer] = @ \o r.chunk]
      /\ IF PassesStopFilter(r.chunk)
         THEN /\ hpc' = "flush"
              /\ remaining' = r.chunk
              /\ bufs' = [bufs EXCEPT ![buffer] = r.buf]
              /\ UNCHANGED <<sent, session_active, failedSends, tasks, conn>>
         ELSE SendFinal(r.buf)

\* {"command": "stop"}: cancel the task and await it
HandleStop ==
    /\ Receiving("stop")
    /\ inbox' = Tail(inbox)
    /\ IF transcribe_task # NoTask /\ tasks[transcribe_task].pc \in Live
       THEN /\ tasks' = Cancel(tasks, transcribe_task)
            /\ hpc' = "await_task"
            /\ UNCHANGED <<conn, bufs, remaining, sent, session_active,
                           failedSends, drained>>
       ELSE IF transcribe_task # NoTask /\ tasks[transcribe_task].pc = "failed"
       THEN \* `await transcribe_task` re-raises the task's ConnectionClosed
            /\ Raised(tasks, transcribe_task)
            /\ UNCHANGED <<bufs, remaining, sent, session_active, failedSends,
                           drained>>
       ELSE DrainRemaining
    /\ UNCHANGED <<limits, other, now, nstart, nbin, nframes, buffer, transcribe_task, ntasks,
                   fed, finals, calls, episode>>

\* `await transcribe_task` returns: CancelledError is swallowed
AwaitDone ==
    /\ hpc = "await_task"
    /\ LoopFree
    /\ tasks[transcribe_task].pc = "cancelled"
    /\ DrainRemaining
    /\ UNCHANGED <<limits, other, now, inbox, nstart, nbin, nframes, buffer, transcribe_task,
                   ntasks, fed, finals, calls, episode>>

\* transcribe_chunk(remaining) returns inside the stop branch
FlushReturn ==
    /\ hpc = "flush"
    /\ \E r \in TranscribeResults(remaining) :
         LET b == IF Truthy(r) THEN add_text(bufs[buffer], r.text)
                               ELSE bufs[buffer]
         IN /\ calls' = Append(calls, [by |-> NoTask, buf |-> buffer,
                                       chunk |-> remaining, final |-> TRUE,
                                       text |-> r.text, stop_pending |-> FALSE,
                                       msg |-> IF conn = "open"
                                               THEN <<get_full_text(b)>> ELSE <<>>])
            /\ SendFinal(b)
    /\ UNCHANGED <<limits, other, now, inbox, nstart, nbin, nframes, buffer, transcribe_task,
                   ntasks, fed, finals, drained, episode>>

\* the handler goes on after the send of final: session_active = False and
\* `await websocket.send(session_ended)`
SendEnded ==
    /\ hpc = "final_sent"
    /\ LoopFree
    /\ session_active' = FALSE
    /\ IF conn = "open"
       THEN /\ sent' = Append(sent, Msg("session_ended", <<>>))
            /\ hpc' = "recv"
            /\ UNCHANGED <<failedSends, tasks, conn>>
       ELSE /\ failedSends' = failedSends + 1
            /\ Raised(tasks, transcribe_task)
            /\ UNCHANGED sent
    /\ UNCHANGED <<limits, other, now, inbox, nstart, nbin, nframes, buffer,
                   transcribe_task, ntasks, bufs, remaining, histVars>>

\* faulty variant: a ping counts as activity and restarts the silence timer
HandlePingAsData ==
    /\ Receiving("ping")
    /\ inbox' = Tail(inbox)
    /\ bufs' = [bufs EXCEPT ![buffer].last_data_time = now]
    /\ IF conn = "open"
       THEN /\ sent' = Append(sent, Msg("pong", <<>>))
            /\ UNCHANGED <<hpc, tasks, conn, failedSends>>
       ELSE /\ failedSends' = failedSends + 1
            /\ Raised(tasks, transcribe_task)
            /\ UNCHANGED sent
    /\ UNCHANGED <<limits, other, now, nstart, nbin, nframes, buffer, session_active,
                   transcribe_task, ntasks, remaining, histVars>>

\* {"command": "ping"}
HandlePing ==
    /\ Receiving("ping")
    /\ inbox' = Tail(inbox)
    /\ IF conn = "open"
       THEN /\ sent' = Append(sent, Msg("pong", <<>>))
            /\ UNCHANGED <<hpc, tasks, conn, failedSends>>
       ELSE /\ failedSends' = failedSends + 1
            /\ Raised(tasks, transcribe_task)
            /\ UNCHANGED sent
    /\ UNCHANGED <<limits, other, now, nstart, nbin, nframes, buffer, session_active,
                   transcribe_task, ntasks, bufs, remaining, histVars>>

\* faulty variant: JSONDecodeError is not caught inside the loop
HandleBadJsonRaises ==
    /\ Receiving("badjson")
    /\ inbox' = Tail(inbox)
    /\ Raised(tasks, transcribe_task)
    /\ UNCHANGED <<limits, other, now, nstart, nbin, nframes, buffer, session_active,
                   transcribe_task, ntasks, bufs, remaining, sent, failedSends,
                   histVars>>

\* json.loads raises JSONDecodeError: logged, the loop continues
HandleBadJson ==
    /\ Receiving("badjson")
    /\ inbox' = Tail(inbox)
    /\ UNCHANGED <<limits, other, now, conn, nstart, nbin, nframes, handlerVars, bufs, tasks, sent,
                   failedSends, histVars>>

\* an object whose command is absent or none of start, stop, ping
HandleUnknown ==
    /\ Receiving("unknown")
    /\ inbox' = Tail(inbox)
    /\ UNCHANGED <<limits, other, now, conn, nstart, nbin, nframes, handlerVars, bufs, tasks, sent,
                   failedSends, histVars>>

\* valid JSON that is no object: data.get raises AttributeError, which only
\* the outer `except Exception` catches
HandleNonObject ==
    /\ Receiving("nonobject")
    /\ inbox' = Tail(inbox)
    /\ Raised(tasks, transcribe_task)
    /\ UNCHANGED <<limits, other, now, nstart, nbin, nframes, buffer, session_active,
                   transcribe_task, ntasks, bufs, remaining, sent, failedSends,
                   histVars>>

\* the iteration ends: normally after a clean close (nothing is cancelled),
\* by ConnectionClosed otherwise
HandleEnd ==
    /\ hpc = "recv"
    /\ LoopFree
    /\ inbox = <<>>
    /\ conn # "open"
    /\ hpc' = "done"
    /\ tasks' = IF conn = "closed_ok" THEN tasks ELSE Cancel(tasks, transcribe_task)
    /\ UNCHANGED <<now, peerVars, buffer, session_active, transcribe_task, ntasks,
                   bufs, remaining, sent, failedSends, histVars>>

\* ------------------------------------------------------ periodic_transcribe
\* CancelledError is thrown into the task where it is suspended; the finally
\* clause resets the flag and whatever the task held is gone with its frame
TaskCancelled(t) ==
    /\ tasks[t].cancelReq
    /\ tasks[t].pc \in Live
    /\ LoopFree \/ tasks[t].pc = "call"
    /\ tasks' = [tasks EXCEPT ![t] = [@ EXCEPT !.pc = "cancelled",
                                               !.transcribing = FALSE,
                                               !.slept = FALSE,
                                               !.chunk = <<>>]]
    /\ UNCHANGED <<now, peerVars, handlerVars, bufs, sent, failedSends, histVars>>

\* the task's first step: transcribing = False and the first asyncio.sleep
TaskStart(t) ==
    /\ tasks[t].pc = "new"
    /\ ~tasks[t].cancelReq
    /\ LoopFree
    /\ tasks' = [tasks EXCEPT ![t] = [@ EXCEPT !.pc = "sleep",
                                               !.transcribing = FALSE,
                                               !.slept = FALSE]]
    /\ UNCHANGED <<now, peerVars, handlerVars, bufs, sent, failedSends, histVars>>

\* history only: the outcome s of one should_transcribe call on a buffer
Polled(e, s) ==
    IF s.ret /\ s.buf.is_segment_end THEN [e EXCEPT !.fires = @ + 1]
    ELSE IF ~s.ret /\ e.fires > 0 THEN [e EXCEPT !.idle = TRUE]
    ELSE e

\* the step from asyncio.sleep to the next suspension: either back to sleep,
\* or into transcribe_chunk with the extracted chunk
TaskWake(t) ==
    /\ tasks[t].pc = "sleep"
    /\ ~tasks[t].cancelReq
    /\ LoopFree
    /\ tasks[t].slept
    /\ IF tasks[t].transcribing
       THEN /\ tasks' = [tasks EXCEPT ![t].slept = FALSE]
            /\ UNCHANGED <<bufs, finals, episode>>
       ELSE LET s == should_transcribe(bufs[t], now)
                g == get_data_for_transcribe(s.buf)
            IN /\ episode' = [episode EXCEPT ![t] = Polled(@, s)]
               /\ IF s.ret
                  THEN /\ bufs' = [bufs EXCEPT ![t] = g.buf]
                       /\ tasks' = [tasks EXCEPT ![t] =
                                      [@ EXCEPT !.pc = "call",
                                                !.transcribing = TRUE,
                                                !.chunk = g.chunk,
                                                !.is_segment_end = g.final]]
                       /\ finals' = [finals EXCEPT ![t] =
                                       IF g.final THEN @ \o g.chunk ELSE @]
                  ELSE /\ bufs' = [bufs EXCEPT ![t] = s.buf]
                       /\ tasks' = [tasks EXCEPT ![t].slept = FALSE]
                       /\ UNCHANGED finals
    /\ UNCHANGED <<now, peerVars, handlerVars, sent, failedSends, fed, drained,
                   calls>>

\* history only: a stop command has arrived and waits to be received
StopPending == inbox # <<>> /\ Head(inbox).kind = "stop"

\* `if is_segment_end: buffer.add_text(text)`
\* faulty variant: interim texts are appended to the accumulator too
SavesEveryText(is_segment_end) == TRUE

SavesText(is_segment_end) == is_segment_end

\* faulty variant: the probe's text is left out of an interim message
PartialTextSaved(b, text, is_segment_end) == get_full_text(b)

\* faulty variant: an interim message carries the probe's text alone
PartialTextProbe(b, text, is_segment_end) ==
    IF ~is_segment_end /\ text # <<>> THEN text ELSE get_full_text(b)

\* the text of the partial message
PartialText(b, text, is_segment_end) ==
    IF ~is_segment_end /\ text # <<>>
    THEN (IF get_full_text(b) # <<>> THEN get_full_text(b) \o text ELSE text)
    ELSE get_full_text(b)

\* faulty variant: no finally clause on the path of a send that raises, so
\* the task ends with the flag set
TaskReturnNoFinally(t) ==
    /\ tasks[t].pc = "call"
    /\ ~tasks[t].cancelReq
    /\ \E r \in TranscribeResults(tasks[t].chunk) :
         LET final == tasks[t].is_segment_end
             b == IF Truthy(r) /\ SavesText(final)
                  THEN add_text(bufs[t], r.text) ELSE bufs[t]
             raises == Truthy(r) /\ conn # "open"
         IN /\ calls' = Append(calls, [by |-> t, buf |-> t,
                                       chunk |-> tasks[t].chunk,
                                       final |-> final, text |-> r.text,
                                       stop_pending |-> StopPending,
                                       msg |-> IF Truthy(r) /\ conn = "open"
                                               THEN <<PartialText(b, r.text, final)>>
                                               ELSE <<>>])
            /\ bufs' = [bufs EXCEPT ![t] = b]
            /\ sent' = IF Truthy(r) /\ conn = "open"
                       THEN Append(sent, Msg("partial", PartialText(b, r.text, final)))
                       ELSE sent
            /\ failedSends' = IF raises THEN failedSends + 1 ELSE failedSends
            /\ tasks' = [tasks EXCEPT ![t] =
                           [@ EXCEPT !.pc = IF raises THEN "failed"
                                            ELSE IF Truthy(r) THEN "send"
                                            ELSE "sleep",
                                     !.transcribing = Truthy(r),
                                     !.chunk = <<>>,
                                     !.slept = FALSE]]
    /\ UNCHANGED <<now, peerVars, handlerVars, fed, finals, drained, episode>>

\* transcribe_chunk returns; add_text and the send of the partial message
\* follow without suspension; a send on a closed connection raises and ends
\* the task, a falsy text takes the task straight back to asyncio.sleep
TaskReturn(t) ==
    /\ tasks[t].pc = "call"
    /\ ~tasks[t].cancelReq
    /\ \E r \in TranscribeResults(tasks[t].chunk) :
         LET final == tasks[t].is_segment_end
             b == IF Truthy(r) /\ SavesText(final)
                  THEN add_text(bufs[t], r.text) ELSE bufs[t]
             raises == Truthy(r) /\ conn # "open"
         IN /\ calls' = Append(calls, [by |-> t, buf |-> t,
                                       chunk |-> tasks[t].chunk,
                                       final |-> final, text |-> r.text,
                                       stop_pending |-> StopPending,
                                       msg |-> IF Truthy(r) /\ conn = "open"
                                               THEN <<PartialText(b, r.text, final)>>
                                               ELSE <<>>])
            /\ bufs' = [bufs EXCEPT ![t] = b]
            /\ sent' = IF Truthy(r) /\ conn = "open"
                       THEN Append(sent, Msg("partial", PartialText(b, r.text, final)))
                       ELSE sent
            /\ failedSends' = IF raises THEN failedSends + 1 ELSE failedSends
            /\ tasks' = [tasks EXCEPT ![t] =
                           [@ EXCEPT !.pc = IF raises THEN "failed"
                                            ELSE IF Truthy(r) THEN "send"
                                            ELSE "sleep",
                                     !.transcribing = Truthy(r) /\ ~raises,
                                     !.chunk = <<>>,
                                     !.slept = FALSE]]
    /\ UNCHANGED <<now, peerVars, handlerVars, fed, finals, drained, episode>>

\* the task goes on after the send of partial: the finally clause resets the
\* flag and the loop returns to asyncio.sleep
TaskResume(t) ==
    /\ tasks[t].pc = "send"
    /\ ~tasks[t].cancelReq
    /\ LoopFree
    /\ tasks' = [tasks EXCEPT ![t] = [@ EXCEPT !.pc = "sleep",
                                               !.transcribing = FALSE,
                                               !.slept = FALSE]]
    /\ UNCHANGED <<now, peerVars, handlerVars, bufs, sent, failedSends, histVars>>

\* ------------------------------------------- a session on a second connection
\* Every connection's handler and scheduler are coroutines of the one event
\* loop, and every Transcriber call runs on that loop's thread.  Of the
\* second connection only its scheduler's next call is modelled.

\* its periodic_transcribe wakes, should_transcribe returns True and
\* transcribe_chunk is entered
OtherTick ==
    /\ other = "sleep"
    /\ LoopFree
    /\ other' = "call"
    /\ UNCHANGED <<limits, now, conn, inbox, nstart, nbin, nframes, handlerVars,
                   bufs, tasks, sent, failedSends, histVars>>

\* its transcribe_chunk returns
OtherReturn ==
    /\ other = "call"
    /\ other' = "done"
    /\ UNCHANGED <<limits, now, conn, inbox, nstart, nbin, nframes, handlerVars,
                   bufs, tasks, sent, failedSends, histVars>>

\* ------------------------------------------------------------ specification
Next ==
    \/ Advance
    \/ PeerSendBinary
    \/ PeerSendStart
    \/ PeerSendCtl
    \/ PeerClose
    \/ Connect
    \/ HandleBinary
    \/ HandleStart
    \/ HandleStop
    \/ AwaitDone
    \/ FlushReturn
    \/ HandlePing
    \/ HandleBadJson
    \/ HandleUnknown
    \/ HandleNonObject
    \/ HandleEnd
    \/ \E t \in TaskIds : TaskCancelled(t)
    \/ \E t \in TaskIds : TaskWake(t)
    \/ \E t \in TaskIds : TaskReturn(t)
    \/ \E t \in TaskIds : TaskStart(t)
    \/ \E t \in TaskIds : TaskResume(t)
    \/ SendEnded
    \/ OtherTick
    \/ OtherReturn

Spec == Init /\ [][Next]_vars

\* the steps of the connection handler other than the return of the flush's
\* Transcriber call
HandlerStep ==
    \/ Connect
    \/ HandleBinary
    \/ HandleStart
    \/ HandleStop
    \/ AwaitDone
    \/ SendEnded
    \/ HandlePing
    \/ HandleBadJson
    \/ HandleUnknown
    \/ HandleNonObject
    \/ HandleEnd

\* The event loop runs every coroutine that is ready: the handler takes its
\* next step and a requested cancellation is delivered.  transcribe_chunk
\* runs synchronously on the loop's thread, so a call that has begun runs to
\* its return.
StopFair ==
    /\ Spec
    /\ WF_vars(HandlerStep)
    /\ WF_vars(FlushReturn)
    /\ WF_vars(OtherReturn)
    /\ \A t \in TaskIds :
         /\ WF_vars(TaskCancelled(t))
         /\ WF_vars(TaskReturn(t))
         /\ WF_vars(TaskStart(t))
         /\ WF_vars(TaskResume(t))

\* Moreover the clock moves on and a loop whose sleep has elapsed wakes.
FairSpec ==
    /\ StopFair
    /\ WF_vars(Advance)
    /\ \A t \in TaskIds : WF_vars(TaskWake(t))

\* ------------------------------------------------------------------ claims
\* the Transcriber calls that have begun and not returned
Outstanding ==
    {t \in TaskIds : tasks[t].pc = "call"} \cup
    (IF hpc = "flush" THEN {NoTask} ELSE {})

\* the scheduler loops that run and have not been cancelled
Running == {t \in TaskIds : tasks[t].pc \in Live /\ ~tasks[t].cancelReq}

\* the handler has replied to a stop (final, then session_ended), waits for
\* the next frame, and nothing has been sent since
Replied ==
    /\ hpc = "recv"
    /\ sent # <<>>
    /\ sent[Len(sent)].type = "session_ended"

\* the text of the latest final message
ReplyText ==
    LET I == {i \in 1 .. Len(sent) : sent[i].type = "final"}
    IN sent[CHOOSE i \in I : \A j \in I : j <= i].text

FinalCalls(b) == SelectSeq(calls, LAMBDA c : c.buf = b /\ c.final)

SchedulerFinalCalls(b) == SelectSeq(calls, LAMBDA c : c.by = b /\ c.final)

TextsOf(cs) ==
    LET kept == SelectSeq(cs, LAMBDA c : c.text # <<>>)
    IN [i \in 1 .. Len(kept) |-> kept[i].text]

ChunksOf(cs) == [i \in 1 .. Len(cs) |-> cs[i].chunk]

\* C1: at most one Transcriber call is outstanding on the connection at any
\* time, counting the calls of every scheduler loop and the flush of the stop
\* handler; no tick begins a call while another call has not returned.
C1_SingleFlight == Cardinality(Outstanding) <= 1

\* C1 witness: one loop is inside the Transcriber while another loop of the
\* connection has slept its interval and has a full buffer to transcribe.
C1_Witness ==
    \E t1, t2 \in TaskIds :
        /\ t1 # t2
        /\ tasks[t1].pc = "call"
        /\ tasks[t2].pc = "sleep" /\ tasks[t2].slept /\ ~tasks[t2].cancelReq
        /\ ~MinSizeGate(bufs[t2])

\* C2: at most one scheduler loop is live (spawned, not finished, not
\* cancelled) on the connection at any time.
C2_OneScheduler == Cardinality(Running) <= 1

\* C3: once session_ended has been sent, no partial message is sent before
\* the next session_started.
C3_NoPartialAfterEnd ==
    \A i, j \in 1 .. Len(sent) :
        (i < j /\ sent[i].type = "session_ended" /\ sent[j].type = "partial")
            => \E k \in (i + 1) .. (j - 1) : sent[k].type = "session_started"

\* C4: after the receive loop has ended, by whatever kind of close, no
\* scheduler loop of the connection is left running and no Transcriber call
\* is outstanding.
C4_CloseCancelsAll ==
    hpc = "done" => (Running = {} /\ Outstanding = {})

\* C5: whenever the session is active and the handler waits for the next
\* frame, a scheduler loop bound to the session's current buffer is running.
C5_ActiveHasScheduler ==
    (hpc = "recv" /\ session_active)
        => (transcribe_task # NoTask /\ transcribe_task = buffer
            /\ transcribe_task \in Running)

\* the final chunk a scheduler loop holds while its call is outstanding
HeldFinal(t) ==
    IF tasks[t].pc = "call" /\ tasks[t].is_segment_end THEN tasks[t].chunk ELSE <<>>

\* C6: cancellation never discards an extracted final segment.  Every final
\* segment a scheduler loop has cleared from its buffer is either still in
\* its Transcriber call or that call has returned; and when the handler has
\* replied to a stop, every non-empty text returned for a final segment of
\* the session's buffer is in the accumulator and the final message carries
\* the accumulator's text.
C6_NoInFlightDiscard ==
    /\ \A t \in TaskIds :
           finals[t] = Join(ChunksOf(SchedulerFinalCalls(t))) \o HeldFinal(t)
    /\ Replied =>
           /\ ReplyText = get_full_text(bufs[buffer])
           /\ \A i \in 1 .. Len(calls) :
                  (calls[i].buf = buffer /\ calls[i].final /\ calls[i].text # <<>>)
                      => \E j \in 1 .. Len(bufs[buffer].all_text) :
                             bufs[buffer].all_text[j] = calls[i].text

\* C6 witness: the stop arrived while the scheduler's call on a final segment
\* was outstanding, and the reply to that stop carries the segment's text.
C6_Witness ==
    /\ Replied
    /\ \E i \in 1 .. Len(calls) :
           /\ calls[i].by = buffer /\ calls[i].by # NoTask
           /\ calls[i].final /\ calls[i].stop_pending
           /\ calls[i].text # <<>>
           /\ ReplyText = calls[i].text

\* C7: for every buffer, the frames passed to add_data are exactly the final
\* segments its scheduler extracted, then the blocks get_remaining_data took,
\* then what is still pending, in order: nothing is lost or duplicated.
C7_NoByteLost ==
    \A b \in BufIds : fed[b] = finals[b] \o drained[b] \o bufs[b].buffer

\* C7 witness: one buffer has had a final segment extracted by its scheduler
\* and, after more audio was added, a block drained by stop.
C7_Witness ==
    \E b \in BufIds :
        /\ finals[b] # <<>>
        /\ drained[b] # <<>>
        /\ Len(fed[b]) >= 2

\* C8: while a Transcriber call is outstanding, a frame that has arrived can
\* be received by the handler: a binary frame can be appended by add_data and
\* a ping can be answered before the call returns.
C8_ReceiveNotBlocked ==
    (Outstanding # {} /\ hpc = "recv" /\ inbox # <<>>)
        => /\ Head(inbox).kind = "bin" => ENABLED HandleBinary
           /\ Head(inbox).kind = "ping" => ENABLED HandlePing

\* C9 (state part): every accumulator holds exactly the non-empty texts the
\* Transcriber returned for the final segments of its buffer, scheduler
\* segments and stop flush alike, once each and in the order of the calls;
\* the final message of a reply carries their concatenation.
C9_Exact ==
    /\ \A b \in BufIds : bufs[b].all_text = TextsOf(FinalCalls(b))
    /\ Replied => ReplyText = Join(TextsOf(FinalCalls(buffer)))

\* C9 (step part): while the handler keeps its buffer, no step shortens or
\* rewrites get_full_text: the old value is a prefix of the new one.
C9_Grows ==
    buffer' = buffer
        => IsPrefix(get_full_text(bufs[buffer]), get_full_text(bufs'[buffer]))

\* C9: the transcript of a session grows monotonically, each final segment's
\* non-empty text is appended exactly once, and the final message equals the
\* concatenation of the Transcriber outputs of the session's final segments.
C9_MonotoneTranscript == []C9_Exact /\ [][C9_Grows]_vars

\* C9 witness: the reply to the first stop after a start carries the text of
\* a final segment of the scheduler followed by the text of the stop flush.
C9_Witness ==
    /\ Replied
    /\ buffer # 0
    /\ \E i, j \in 1 .. Len(calls) :
           /\ i < j
           /\ calls[i].buf = buffer /\ calls[i].by = buffer /\ calls[i].final
           /\ calls[j].buf = buffer /\ calls[j].by = NoTask
           /\ calls[i].text # <<>> /\ calls[j].text # <<>>
           /\ ReplyText = calls[i].text \o calls[j].text

\* C10 (state part): every chunk a scheduler loop hands to the Transcriber
\* has at least min_data_size bytes.
C10_CallsAboveMin ==
    /\ \A t \in TaskIds : tasks[t].pc = "call" => Size(tasks[t].chunk) >= min_data_size
    /\ \A i \in 1 .. Len(calls) :
           calls[i].by # NoTask => Size(calls[i].chunk) >= min_data_size

\* C10 (step part): from a state in which a buffer holds fewer than
\* min_data_size bytes, no step sets its trigger time or its segment-end
\* mark, extracts from it or begins a call on it.
C10_GateShut ==
    \A t \in TaskIds :
        Size(bufs[t].buffer) < min_data_size
            => /\ bufs'[t].last_transcribe_time = bufs[t].last_transcribe_time
               /\ bufs'[t].is_segment_end = bufs[t].is_segment_end
               /\ finals'[t] = finals[t]
               /\ (tasks'[t].pc = "call") => (tasks[t].pc = "call")

\* C10: below min_data_size should_transcribe returns false and changes no
\* state, so the scheduler never transcribes fewer than min_data_size bytes.
C10_MinSizeGate == []C10_CallsAboveMin /\ [][C10_GateShut]_vars

\* C10 witness: a loop has just polled a buffer that holds some audio, less
\* than min_data_size, after a silence of at least silence_threshold, and
\* has gone back to sleep.
C10_Witness ==
    \E t \in TaskIds :
        /\ tasks[t].pc = "sleep" /\ ~tasks[t].slept /\ ~tasks[t].cancelReq
        /\ bufs[t].buffer # <<>>
        /\ Size(bufs[t].buffer) < min_data_size
        /\ bufs[t].last_data_time # NoTime
        /\ now - bufs[t].last_data_time >= silence_threshold

\* the silence condition of should_transcribe holds for the buffer now
InSilence(b) ==
    /\ Size(b.buffer) >= min_data_size
    /\ TimeSet(b.last_data_time)
    /\ now - b.last_data_time >= silence_threshold

\* C11: the silence trigger fires once per silence episode.  With at least
\* min_data_size bytes pending and no data for silence_threshold,
\* should_transcribe returns true and the segment extracted is final; since
\* the last add_data on a buffer it has returned true on silence at most
\* once, and after it has, a poll of the buffer returns false, whatever the
\* Transcriber answered for the segment.
C11_SilenceOnce ==
    \A b \in BufIds :
        /\ InSilence(bufs[b]) =>
               LET s == should_transcribe(bufs[b], now) IN
                 /\ s.ret
                 /\ s.buf.is_segment_end
                 /\ get_data_for_transcribe(s.buf).final
        /\ episode[b].fires <= 1
        /\ episode[b].fires = 1 => ~should_transcribe(bufs[b], now).ret

\* C11 witness: the silence trigger fired on a buffer, the Transcriber call
\* for that segment returned no text, and a later poll tick of the same
\* silence episode has found nothing to transcribe.
C11_Witness ==
    \E t \in TaskIds :
        /\ episode[t].fires = 1 /\ episode[t].idle
        /\ Len(SchedulerFinalCalls(t)) = 1
        /\ SchedulerFinalCalls(t)[1].text = <<>>
        /\ SchedulerFinalCalls(t)[1].chunk = fed[t]

\* the interval condition of should_transcribe holds for the buffer now
InInterval(b) ==
    /\ Size(b.buffer) >= min_data_size
    /\ b.last_data_time # NoTime
    /\ now - b.last_data_time < silence_threshold
    /\ b.last_transcribe_time # NoTime
    /\ now - b.last_transcribe_time >= max_interval

\* C12: the interval trigger.  With at least min_data_size bytes pending,
\* the last data less than silence_threshold ago and max_interval elapsed
\* since the last trigger, should_transcribe returns true, marks the segment
\* non-final and records the trigger time; the get_data_for_transcribe that
\* follows returns all pending bytes as non-final and leaves pending as it is.
C12_IntervalTrigger ==
    \A b \in BufIds :
        InInterval(bufs[b]) =>
            LET s == should_transcribe(bufs[b], now)
                g == get_data_for_transcribe(s.buf)
            IN /\ s.ret
               /\ ~s.buf.is_segment_end
               /\ s.buf.last_transcribe_time = now
               /\ g.chunk = bufs[b].buffer
               /\ ~g.final
               /\ g.buf.buffer = bufs[b].buffer

\* C12 witness: audio has arrived with every gap shorter than
\* silence_threshold, no segment has ended, an earlier trigger lies
\* max_interval back, and the loop has just begun a call on a non-final
\* segment that holds everything fed and is still pending.
C12_Witness ==
    \E t \in TaskIds :
        /\ tasks[t].pc = "call" /\ ~tasks[t].is_segment_end
        /\ tasks[t].chunk = fed[t]
        /\ bufs[t].buffer = fed[t]
        /\ bufs[t].last_transcribe_time = now
        /\ now - bufs[t].last_data_time < silence_threshold
        /\ episode[t].steady
        /\ Len(fed[t]) >= 2
        /\ \E i \in 1 .. Len(calls) :
               calls[i].by = t /\ Size(calls[i].chunk) >= min_data_size

\* the calls of scheduler loop t that have returned, in order
SchedulerCalls(t) == SelectSeq(calls, LAMBDA c : c.by = t)

\* Scenario A: the session of loop t was opened by start, at least
\* min_data_size bytes were fed to it in one burst (no gap of
\* silence_threshold between frames) and no data has arrived since for
\* longer than silence_threshold.
FedThenSilent(t) ==
    /\ Size(fed[t]) >= min_data_size
    /\ episode[t].steady
    /\ now - bufs[t].last_data_time > silence_threshold

\* C13 as claimed: in scenario A no interim partial message is sent for the
\* audio; every update the scheduler sends for it belongs to a final
\* segment that holds exactly the bytes fed.
C13_StraightToFinal ==
    \A t \in TaskIds :
        FedThenSilent(t) =>
            \A i \in 1 .. Len(SchedulerCalls(t)) :
                SchedulerCalls(t)[i].msg # <<>>
                    => /\ SchedulerCalls(t)[i].final
                       /\ SchedulerCalls(t)[i].chunk = fed[t]

\* C13 amended: in scenario A interim partial messages may be sent for the
\* audio by ticks that ran before the silence had elapsed, each on a prefix
\* of the bytes fed and carrying the probe's text; at most one final segment
\* is extracted, after every interim probe, it holds exactly the bytes fed,
\* and the update sent for it carries the Transcriber's output for them.
C13_ProbesThenFinal ==
    \A t \in TaskIds :
        FedThenSilent(t) =>
            \A i \in 1 .. Len(SchedulerCalls(t)) :
                LET c == SchedulerCalls(t)[i] IN
                  /\ c.msg # <<>> => c.msg = <<c.text>>
                  /\ IsPrefix(c.chunk, fed[t])
                  /\ c.final => (c.chunk = fed[t] /\ i = Len(SchedulerCalls(t)))

\* C13 witness: one frame of min_data_size bytes was fed after start; a tick
\* before the silence elapsed sent an interim update, and the tick after it
\* sent the update of the final segment with the text of the bytes fed.
C13_Witness ==
    \E t \in TaskIds :
        /\ FedThenSilent(t)
        /\ Len(SchedulerCalls(t)) = 2
        /\ ~SchedulerCalls(t)[1].final /\ SchedulerCalls(t)[1].msg # <<>>
        /\ SchedulerCalls(t)[2].final /\ SchedulerCalls(t)[2].msg = <<Ids(fed[t])>>

\* this step is the stop branch reaching get_remaining_data: either the
\* awaited task has ended, or stop found no live task to await
StopDrains ==
    \/ hpc = "await_task" /\ hpc' # "await_task"
    \/ /\ hpc = "recv" /\ inbox # <<>> /\ Head(inbox).kind = "stop"
       /\ inbox' # inbox
       /\ hpc' # "await_task"
       /\ ~(transcribe_task # NoTask /\ tasks[transcribe_task].pc = "failed")

\* C14 (drain): stop takes everything pending, whatever its size, and the
\* block goes to the Transcriber exactly when it has more than stop_filter
\* bytes; otherwise the final message carries the accumulator's text as it
\* was, and the accumulator is unchanged.
C14_Drain ==
    StopDrains =>
        LET pending == bufs[buffer].buffer IN
          /\ bufs'[buffer].buffer = <<>>
          /\ drained'[buffer] = drained[buffer] \o pending
          /\ (hpc' = "flush") <=> (Size(pending) > stop_filter)
          /\ bufs'[buffer].all_text = bufs[buffer].all_text
          /\ hpc' = "flush" => (remaining' = pending /\ sent' = sent)
          /\ (hpc' # "flush" /\ conn = "open")
                 => sent' = Append(sent, Msg("final", get_full_text(bufs[buffer])))

\* C14 (flush): when the call on the drained block returns, its text is
\* appended to the accumulator if it is non-empty, and the final message
\* carries the accumulator's text before the stop followed by that text.
C14_Flush ==
    (hpc = "flush" /\ hpc' # "flush") =>
        LET c == calls'[Len(calls')] IN
          /\ Len(calls') = Len(calls) + 1
          /\ c.by = NoTask /\ c.chunk = remaining
          /\ bufs'[buffer].all_text =
                 IF c.text # <<>> THEN Append(bufs[buffer].all_text, c.text)
                                  ELSE bufs[buffer].all_text
          /\ conn = "open"
                 => sent' = Append(sent, Msg("final",
                                            get_full_text(bufs[buffer]) \o c.text))

\* C14: on stop the remaining bytes are drained unconditionally and
\* transcribed if and only if they are more than stop_filter bytes; the
\* final message is the accumulator's text before the stop, followed by the
\* Transcriber's output for the drained bytes when they pass the filter.
C14_StopFlush == [][C14_Drain /\ C14_Flush]_vars

\* C14 witness: a first stop drained a block of exactly stop_filter bytes
\* and was answered with the empty text without a Transcriber call; a
\* second stop drained a larger block and was answered with its text.
C14_Witness ==
    /\ Replied
    /\ Len(drained[buffer]) = 2
    /\ drained[buffer][1].size = stop_filter
    /\ drained[buffer][2].size > stop_filter
    /\ Len(calls) = 1
    /\ calls[1].by = NoTask /\ calls[1].chunk = <<drained[buffer][2]>>
    /\ calls[1].text # <<>>
    /\ ReplyText = calls[1].text
    /\ \E i \in 1 .. Len(sent) - 2 : sent[i] = Msg("final", <<>>)

\* the calls on final segments of buffer b among the first i calls
FinalCallsUpTo(b, i) ==
    SelectSeq(SubSeq(calls, 1, i), LAMBDA c : c.buf = b /\ c.final)

\* C15: get_full_text is the concatenation, in order and with nothing in
\* between, of the non-empty texts returned for the buffer's final
\* segments; the partial message sent after the k-th of them carries the
\* whole concatenation t1..tk, not tk alone.
C15_CumulativeUpdate ==
    /\ \A b \in BufIds : get_full_text(bufs[b]) = Join(TextsOf(FinalCalls(b)))
    /\ \A i \in 1 .. Len(calls) :
           (calls[i].by # NoTask /\ calls[i].final /\ calls[i].msg # <<>>)
               => calls[i].msg = <<Join(TextsOf(FinalCallsUpTo(calls[i].buf, i)))>>

\* C15 witness: two final segments of one buffer were transcribed to
\* non-empty texts t1 and t2; the update after the first carried t1 and the
\* update after the second carried t1 followed by t2.
C15_Witness ==
    \E t \in TaskIds :
        /\ Len(SchedulerFinalCalls(t)) = 2
        /\ SchedulerFinalCalls(t)[1].text # <<>>
        /\ SchedulerFinalCalls(t)[2].text # <<>>
        /\ SchedulerFinalCalls(t)[1].msg = <<SchedulerFinalCalls(t)[1].text>>
        /\ SchedulerFinalCalls(t)[2].msg =
               <<SchedulerFinalCalls(t)[1].text \o SchedulerFinalCalls(t)[2].text>>
        /\ get_full_text(bufs[t]) =
               SchedulerFinalCalls(t)[1].text \o SchedulerFinalCalls(t)[2].text

\* this step is the return of loop t's Transcriber call on an interim segment
InterimReturns(t) ==
    tasks[t].pc = "call" /\ ~tasks[t].is_segment_end /\ tasks'[t].pc # "call"

\* C16 (interim tick): the return of a call on a non-final segment leaves
\* the accumulator as it was whatever the Transcriber answered; with a
\* non-empty text and an open connection it sends exactly one partial
\* message, the accumulated transcript followed by the probe's text, and
\* with no text it sends nothing.
C16_InterimTick ==
    \A t \in TaskIds :
        InterimReturns(t) =>
            LET c == calls'[Len(calls')] IN
              /\ Len(calls') = Len(calls) + 1
              /\ c.by = t /\ ~c.final
              /\ bufs'[t].all_text = bufs[t].all_text
              /\ (c.text # <<>> /\ conn = "open")
                     => sent' = Append(sent, Msg("partial",
                                                get_full_text(bufs[t]) \o c.text))
              /\ c.text = <<>> => sent' = sent

\* C16 (appends): an accumulator changes only when the call of its loop on
\* a final segment returns or when the stop flush on its buffer returns.
C16_OnlyFinalAppends ==
    \A b \in BufIds :
        bufs'[b].all_text # bufs[b].all_text =>
            \/ /\ b \in TaskIds
               /\ tasks[b].pc = "call" /\ tasks[b].is_segment_end
               /\ tasks'[b].pc # "call"
            \/ hpc = "flush" /\ hpc' # "flush" /\ b = buffer

\* C16: interim segments never mutate the transcript; only a final
\* segment's tick or the stop flush appends to the accumulator.
C16_InterimNoMutation == [][C16_InterimTick /\ C16_OnlyFinalAppends]_vars

\* C16 witness: after a final segment's text was saved, an interim probe of
\* later audio returned a text; the message sent for it carried the saved
\* text followed by the probe's text, and the accumulator still holds the
\* saved text alone.
C16_Witness ==
    \E t \in TaskIds :
        /\ Len(SchedulerCalls(t)) = 2
        /\ SchedulerCalls(t)[1].final /\ SchedulerCalls(t)[1].text # <<>>
        /\ ~SchedulerCalls(t)[2].final /\ SchedulerCalls(t)[2].text # <<>>
        /\ SchedulerCalls(t)[2].msg =
               <<SchedulerCalls(t)[1].text \o SchedulerCalls(t)[2].text>>
        /\ bufs[t].all_text = <<SchedulerCalls(t)[1].text>>

\* C17: get_remaining_data on an empty buffer returns no data and leaves the
\* buffer as it is; called twice in a row on any buffer it returns no data
\* the second time; the stop flush never calls the Transcriber without data.
C17_DrainIdempotent ==
    /\ \A b \in BufIds :
           LET r1 == get_remaining_data(bufs[b])
               r2 == get_remaining_data(r1.buf)
           IN /\ r1.buf.buffer = <<>>
              /\ r2.chunk = <<>> /\ ~r2.final /\ r2.buf = r1.buf
              /\ bufs[b].buffer = <<>>
                     => (r1.chunk = <<>> /\ ~r1.final /\ r1.buf = bufs[b])
    /\ hpc = "flush" => remaining # <<>>
    /\ \A i \in 1 .. Len(calls) : calls[i].by = NoTask => calls[i].chunk # <<>>

\* C17 witness: a stop drained a block and its text was sent; a second stop
\* right after it found the buffer empty, called no Transcriber and was
\* answered with the same text.
C17_Witness ==
    /\ Replied
    /\ Len(calls) = 1 /\ calls[1].by = NoTask /\ calls[1].text # <<>>
    /\ fed[buffer] = drained[buffer]
    /\ bufs[buffer].buffer = <<>>
    /\ ReplyText = calls[1].text
    /\ \E i \in 1 .. Len(sent) - 2 : sent[i] = Msg("final", calls[1].text)

\* this step handles a start command on an open connection
StartHandled ==
    /\ hpc = "recv" /\ inbox # <<>> /\ Head(inbox).kind = "start"
    /\ inbox' # inbox
    /\ conn = "open"

\* C18 (start): right after start is handled the handler's buffer is a
\* fresh one with nothing pending, an empty accumulator and no trigger
\* times, a scheduler loop polling that buffer has been created and not
\* cancelled, the session is active and session_started has been sent.
C18_Fresh ==
    StartHandled =>
        /\ bufs'[buffer'].buffer = <<>>
        /\ bufs'[buffer'].all_text = <<>>
        /\ get_full_text(bufs'[buffer']) = <<>>
        /\ bufs'[buffer'].last_data_time = NoTime
        /\ bufs'[buffer'].last_transcribe_time = NoTime
        /\ ~bufs'[buffer'].is_segment_end
        /\ transcribe_task' = buffer'
        /\ tasks'[transcribe_task'].pc = "new"
        /\ ~tasks'[transcribe_task'].cancelReq
        /\ session_active'
        /\ sent' = Append(sent, Msg("session_started", <<>>))

\* C18 (frames): once a start has been handled, a binary frame is appended
\* to the buffer of the latest start, the one the handler's task polls, and
\* to no other.
C18_FramesToSession ==
    \A b \in BufIds :
        fed'[b] # fed[b] =>
            /\ b = buffer /\ buffer' = buffer
            /\ transcribe_task # NoTask => b = transcribe_task
            /\ inbox # <<>> /\ Head(inbox).kind = "bin"
            /\ bufs'[b].buffer =
                   Append(bufs[b].buffer,
                          [id |-> Head(inbox).id, size |-> Head(inbox).size])

\* C18: start resets the session and binds the scheduler to the new buffer.
C18_StartResets == [][C18_Fresh /\ C18_FramesToSession]_vars

\* C18 witness: a second start was handled while the first session had
\* audio pending; the frame received after it is the only content of the
\* new buffer, whose loop is running, and the old audio is not in it.
C18_Witness ==
    /\ hpc = "recv"
    /\ buffer = 2 /\ transcribe_task = 2
    /\ tasks[2].pc = "sleep" /\ ~tasks[2].cancelReq
    /\ fed[1] # <<>> /\ bufs[1].buffer = fed[1]
    /\ Len(fed[2]) = 1 /\ bufs[2].buffer = fed[2]
    /\ bufs[2].all_text = <<>>

\* this step handles a ping command on an open connection
PingHandled ==
    /\ hpc = "recv" /\ inbox # <<>> /\ Head(inbox).kind = "ping"
    /\ inbox' # inbox
    /\ conn = "open"

\* C19: handling a ping sends exactly one pong and changes nothing else:
\* not the pending bytes, the trigger times or the accumulator of any
\* buffer, not the session state, not the scheduler tasks or their
\* in-flight flags, and the handler goes on receiving.
C19_PingControlOnly ==
    [][PingHandled =>
          /\ sent' = Append(sent, Msg("pong", <<>>))
          /\ bufs' = bufs
          /\ tasks' = tasks
          /\ session_active' = session_active
          /\ buffer' = buffer
          /\ transcribe_task' = transcribe_task
          /\ ntasks' = ntasks
          /\ hpc' = "recv"
          /\ conn' = conn]_vars

\* C19 witness: the last message sent is the pong of a ping answered in an
\* active session, whose loop is asleep over pending audio that it has
\* already probed once.
C19_Witness ==
    /\ hpc = "recv"
    /\ sent[Len(sent)] = Msg("pong", <<>>)
    /\ session_active
    /\ transcribe_task # NoTask /\ tasks[transcribe_task].pc = "sleep"
    /\ bufs[buffer].buffer # <<>>
    /\ bufs[buffer].last_transcribe_time # NoTime

\* this step takes a text frame that is no JSON, or a JSON object whose
\* command is absent or is none of start, stop and ping
MalformedHandled ==
    /\ hpc = "recv" /\ inbox # <<>>
    /\ Head(inbox).kind \in {"badjson", "unknown"}
    /\ inbox' # inbox

\* C20: a malformed control message is ignored: nothing is sent, no
\* session, buffer, accumulator or scheduler state changes, the connection
\* stays as it is and the handler goes on receiving.
C20_MalformedIgnored ==
    [][MalformedHandled =>
          /\ sent' = sent
          /\ failedSends' = failedSends
          /\ bufs' = bufs
          /\ tasks' = tasks
          /\ session_active' = session_active
          /\ buffer' = buffer
          /\ transcribe_task' = transcribe_task
          /\ ntasks' = ntasks
          /\ hpc' = "recv"
          /\ conn' = conn]_vars

\* C20 witness: in an active session the first frames after start were one
\* audio frame and one malformed text frame, which left no trace, and a ping
\* that followed it has arrived and can be answered.
C20_Witness ==
    /\ hpc = "recv" /\ conn = "open"
    /\ nstart = 1 /\ nbin = 1 /\ nframes = 4
    /\ inbox # <<>> /\ Head(inbox).kind = "ping"
    /\ sent = <<Msg("connected", <<>>), Msg("session_started", <<>>)>>
    /\ session_active
    /\ bufs[buffer].buffer # <<>>
    /\ tasks[transcribe_task].pc = "sleep"
    /\ ENABLED HandlePing

\* the number of messages of one type in a sequence of messages
CountOf(msgs, type) == Len(SelectSeq(msgs, LAMBDA m : m.type = type))

\* the frames the receive loop has taken so far
FramesTaken == nframes - Len(inbox)

\* C21 (state part): connected is the first message on the connection and is
\* sent once; no frame is taken before it has been sent; there are never
\* more session_started messages than start commands handled.
C21_ConnectedFirst ==
    /\ sent # <<>> => sent[1].type = "connected"
    /\ CountOf(sent, "connected") <= 1
    /\ FramesTaken > 0 => (sent # <<>> /\ sent[1].type = "connected")
    /\ CountOf(sent, "session_started") <= ntasks
    /\ ntasks <= nstart

\* C21 (step part): a step sends session_started exactly when it handles a
\* start command on an open connection, and then sends it once.
C21_StartedPerStart ==
    /\ StartHandled => sent' = Append(sent, Msg("session_started", <<>>))
    /\ CountOf(sent', "session_started") # CountOf(sent, "session_started")
           => StartHandled

\* C21: connected is the first outbound message, sent exactly once and
\* before any inbound frame is processed; session_started is sent exactly
\* once per start command and only in reply to a start.
C21_Greeting == []C21_ConnectedFirst /\ [][C21_StartedPerStart]_vars

\* C21 witness: two start commands were handled with a stop between them;
\* the messages begin with connected, and session_started appears twice.
C21_Witness ==
    /\ hpc = "recv"
    /\ sent[1].type = "connected"
    /\ ntasks = 2
    /\ CountOf(sent, "session_started") = 2
    /\ \E i, j \in 1 .. Len(sent) :
           /\ i < j /\ j < Len(sent)
           /\ sent[i].type = "session_started"
           /\ sent[j].type = "session_ended"
    /\ sent[Len(sent)].type = "session_started"

\* this step is the return of loop t's Transcriber call
CallReturns(t) == tasks[t].pc = "call" /\ tasks'[t].pc # "call"

\* C22 (tick): when the call of a scheduler tick returns failure or the
\* empty text, nothing is sent, the accumulator and the pending bytes are
\* left as they are, the in-flight flag is cleared and the loop goes back to
\* sleep for its next tick.
C22_Absorbed ==
    \A t \in TaskIds :
        (CallReturns(t) /\ calls'[Len(calls')].text = <<>>) =>
            /\ Len(calls') = Len(calls) + 1
            /\ calls'[Len(calls')].by = t
            /\ sent' = sent
            /\ failedSends' = failedSends
            /\ bufs'[t] = bufs[t]
            /\ ~tasks'[t].transcribing
            /\ tasks'[t].pc = "sleep"
            /\ ~tasks'[t].cancelReq

\* C22: a Transcriber failure or an empty text in a scheduler tick is
\* absorbed, and the loop keeps running.
C22_FailureAbsorbed == [][C22_Absorbed]_vars

\* C22 witness: the first call of a loop returned no text and nothing was
\* sent for it; a later tick of the same loop has called the Transcriber
\* again and its text was sent.
C22_Witness ==
    \E t \in TaskIds :
        /\ Len(SchedulerCalls(t)) = 2
        /\ SchedulerCalls(t)[1].text = <<>> /\ SchedulerCalls(t)[1].msg = <<>>
        /\ SchedulerCalls(t)[2].text # <<>> /\ SchedulerCalls(t)[2].msg # <<>>
        /\ CountOf(sent, "partial") = 1

\* C23: the in-flight flag of a scheduler loop is set only from the start
\* of its Transcriber call to the end of the send of the result: it is
\* clear in a loop that sleeps, that was cancelled, that ended by an
\* exception of its send, or that was just created by a start.
C23_FlagReleased ==
    \A t \in TaskIds : tasks[t].transcribing => tasks[t].pc \in {"call", "send"}

\* C23 witness: a loop was cancelled by stop, the loop of the start that
\* followed has since called the Transcriber, and a tick is due for it
\* with its flag clear.
C23_Witness ==
    /\ ntasks = 2
    /\ tasks[1].pc = "cancelled" /\ ~tasks[1].transcribing
    /\ CountOf(sent, "session_ended") = 1
    /\ SchedulerCalls(2) # <<>>
    /\ tasks[2].pc = "sleep" /\ tasks[2].slept /\ ~tasks[2].transcribing

\* the interval condition holds for the buffer now, whatever the silence
IntervalDue(b) ==
    b.last_transcribe_time # NoTime /\ now - b.last_transcribe_time >= max_interval

\* C24: trigger priority and first trigger.  With min_data_size bytes
\* pending, should_transcribe marks the segment final whenever the silence
\* condition holds, also when the interval condition holds with it; without
\* silence and with no trigger so far it returns true, non-final; whenever
\* it returns true it records the current time as the trigger time and
\* touches nothing but that and the segment-end mark; whenever it returns
\* false it changes nothing.
C24_TriggerPriority ==
    \A b \in BufIds :
        LET s == should_transcribe(bufs[b], now) IN
          /\ InSilence(bufs[b]) => (s.ret /\ s.buf.is_segment_end)
          /\ (Size(bufs[b].buffer) >= min_data_size /\ ~InSilence(bufs[b])
                /\ bufs[b].last_transcribe_time = NoTime)
                 => (s.ret /\ ~s.buf.is_segment_end)
          /\ s.ret => /\ s.buf.last_transcribe_time = now
                      /\ s.buf.buffer = bufs[b].buffer
                      /\ s.buf.all_text = bufs[b].all_text
                      /\ s.buf.last_data_time = bufs[b].last_data_time
          /\ ~s.ret => s.buf = bufs[b]

\* C24 witness: a loop is due to poll a buffer for which both conditions
\* hold: a second of silence, and max_interval since the interim trigger
\* that probed the same audio.
C24_Witness ==
    \E t \in TaskIds :
        /\ tasks[t].pc = "sleep" /\ tasks[t].slept /\ ~tasks[t].cancelReq
        /\ LoopFree
        /\ InSilence(bufs[t])
        /\ IntervalDue(bufs[t])
        /\ \E i \in 1 .. Len(calls) :
               calls[i].by = t /\ ~calls[i].final /\ calls[i].chunk = bufs[t].buffer

\* C25: interim probes are growing prefixes.  In the calls one scheduler
\* makes, the segment of every interim call is a prefix of the segment of
\* the scheduler's next call, and a final call's segment starts with the
\* segment of every interim call made since the final call before it.
C25_GrowingPrefixes ==
    \A t \in TaskIds :
        LET cs == SchedulerCalls(t) IN
          /\ \A i \in 1 .. Len(cs) - 1 :
                 ~cs[i].final => IsPrefix(cs[i].chunk, cs[i + 1].chunk)
          /\ \A j \in 1 .. Len(cs) : \A i \in 1 .. j :
                 (cs[j].final /\ \A k \in i .. j - 1 : ~cs[k].final)
                     => IsPrefix(cs[i].chunk, cs[j].chunk)

\* C25 witness: a scheduler probed twice, the second probe with more audio
\* than the first, and then made the final call that ends the utterance.
C25_Witness ==
    \E t \in TaskIds :
        LET cs == SchedulerCalls(t) IN
          /\ Len(cs) >= 3
          /\ ~cs[1].final /\ ~cs[2].final /\ cs[3].final
          /\ Len(cs[1].chunk) < Len(cs[2].chunk)

\* the handler is inside the stop branch: it awaits the cancelled task or
\* the flush's Transcriber call, or it has sent final and not session_ended
InStopBranch == hpc \in {"await_task", "flush", "final_sent"}

\* this step is one of the handler in the stop branch
StopStep ==
    \/ Receiving("stop") /\ inbox' # inbox
    \/ InStopBranch /\ hpc' # hpc

\* a step of the stop branch on an open connection sends nothing while the
\* handler waits for the task or the flush, then final alone, and then
\* session_ended alone with the session idle and the handler back at the
\* receive loop
C26_OneReply ==
    (StopStep /\ conn = "open") =>
        IF hpc' \in {"await_task", "flush"}
        THEN sent' = sent /\ hpc # "final_sent"
        ELSE IF hpc # "final_sent"
        THEN /\ hpc' = "final_sent"
             /\ sent' = Append(sent, Msg("final", get_full_text(bufs'[buffer])))
        ELSE /\ hpc' = "recv"
             /\ ~session_active'
             /\ sent' = Append(sent, Msg("session_ended", <<>>))

\* every final message but one the handler is about to follow up has its
\* session_ended
C26_Paired ==
    conn = "open" =>
        CountOf(sent, "final") =
            CountOf(sent, "session_ended") + (IF hpc = "final_sent" THEN 1 ELSE 0)

\* C26: every stop is answered.  Whatever the session state a stop is
\* received in, the handler sends nothing for it but one final message
\* followed by one session_ended, and leaves the session idle; if it has to
\* wait for the task or for the flush, then the reply eventually comes
\* unless the connection closes.
C26_EveryStopAnswered ==
    /\ []C26_Paired
    /\ [][C26_OneReply]_vars
    /\ (InStopBranch /\ conn = "open") ~> (conn # "open" \/ (Replied /\ ~session_active))

\* C26 witness: a stop before any start was answered, and after a start a
\* second stop was answered once the task had ended and the flush returned.
C26_Witness ==
    /\ Replied /\ ~session_active /\ conn = "open"
    /\ [i \in 1 .. Len(sent) |-> sent[i].type]
         = <<"connected", "final", "session_ended", "session_started", "final",
             "session_ended">>
    /\ tasks[1].pc = "cancelled"
    /\ \E i \in 1 .. Len(calls) : calls[i].by = NoTask /\ calls[i].buf = 1

\* the peer has sent everything it will send and the handler has taken it
PeerQuiet ==
    /\ conn = "open"
    /\ hpc = "recv"
    /\ inbox = <<>>
    /\ nframes = limits.frames

\* the session in progress is on buffer b and has a segment's worth pending
BufferedIn(b) ==
    /\ PeerQuiet
    /\ session_active
    /\ buffer = b
    /\ Size(bufs[b].buffer) >= min_data_size

\* the scheduler of buffer b has extracted everything pending as a final
\* segment and handed it to the Transcriber
FinalHanded(b) ==
    /\ b \in TaskIds
    /\ tasks[b].pc = "call"
    /\ tasks[b].is_segment_end
    /\ tasks[b].chunk # <<>>
    /\ bufs[b].buffer = <<>>

\* the modelled time has run out with the scheduler of buffer b still polling
ClockOut(b) == b \in Running /\ now = (limits.clock + 1) * interval

\* C27: buffered audio is eventually transcribed.  Once an active session
\* on an open connection has min_data_size bytes pending and neither data
\* nor stop follows, the scheduler eventually extracts them as a final
\* segment and hands it to the Transcriber, in a session begun by start and
\* in one begun by a binary frame alike.
C27_EventuallyTranscribed ==
    \A b \in BufIds :
        BufferedIn(b) ~> (conn # "open" \/ FinalHanded(b) \/ ClockOut(b))

\* the texts of the final messages sent so far, in order
FinalTexts ==
    LET fs == SelectSeq(sent, LAMBDA m : m.type = "final")
    IN [i \in 1 .. Len(fs) |-> fs[i].text]

TextSet(text) == {text[i] : i \in 1 .. Len(text)}

\* C28: a fresh session never carries old text.  The final message of a
\* stop has only text of audio received since the session began (by start,
\* or by the first binary frame after the previous session_ended), so text
\* delivered in one final message is in no later final message.  Every
\* frame's text is distinct here, so no two final messages share any.
C28_NoOldText ==
    \A i, j \in 1 .. Len(FinalTexts) :
        i < j => TextSet(FinalTexts[i]) \cap TextSet(FinalTexts[j]) = {}


\* what belongs to the modelled connection
ConnVars ==
    <<conn, inbox, hpc, buffer, session_active, transcribe_task, ntasks, remaining,
      bufs, tasks, sent, failedSends>>

\* a scheduler of the modelled connection is about to start a call: not
\* cancelled, its sleep elapsed, a segment ready, and no call of its own
\* connection outstanding
Due(t) ==
    /\ tasks[t].pc = "sleep" /\ tasks[t].slept /\ ~tasks[t].cancelReq
    /\ ~tasks[t].transcribing
    /\ should_transcribe(bufs[t], now).ret
    /\ Outstanding = {}

\* no step changes both connections, and a call outstanding in one session
\* does not keep the other's scheduler from starting its call
C29_NoInterference == ~(other' # other /\ ConnVars' # ConnVars)

C29_NoBlocking ==
    /\ (other = "sleep" /\ Outstanding # {}) => ENABLED OtherTick
    /\ other = "call" => \A t \in TaskIds : Due(t) => ENABLED TaskWake(t)

\* C29: sessions are isolated.  With two connections open no operation on
\* one changes the buffer, accumulator, session state or scheduler of the
\* other, and a Transcriber call outstanding in one session never prevents
\* the other session from starting its own call.
C29_Isolated == []C29_NoBlocking /\ [][C29_NoInterference]_vars

\* this step is the handler taking a text frame that is valid JSON and no
\* object
NonObjectHandled == Receiving("nonobject") /\ inbox' # inbox

\* C30: a text frame that is valid JSON and not an object is handled like
\* an unrecognized command: nothing is sent, no state changes, the receive
\* loop goes on with the connection open and a running scheduler keeps
\* running.
C30_NonObjectIgnored ==
    [][NonObjectHandled =>
          /\ sent' = sent
          /\ hpc' = "recv"
          /\ conn' = conn
          /\ UNCHANGED <<buffer, session_active, transcribe_task, bufs, tasks>>]_vars

====
